---- MODULE Spec2Model ----
(***************************************************************************)
(* Server-side Minesweeper (barciewicz/minsk): the Game engine of          *)
(* minesweeper.py (board, flood-fill reveal, flagging, scoring), the       *)
(* GamesManager registry and the request handlers of views.py.             *)
(*                                                                         *)
(* Two state machines share the module:                                    *)
(*   Spec     one Game object driven through its own methods, as the       *)
(*            console loop of main() drives it (operations keep arriving   *)
(*            after the game has ended);                                   *)
(*   WebSpec  the registry and the request handlers, one action per        *)
(*            route, with a clock.                                         *)
(***************************************************************************)
EXTENDS Integers, Sequences, FiniteSets

(* ---------------- bounds (scaled-down GameSettings, run lengths) ------- *)
n_rows == 2
n_cols == 3
mines_ratio == 3
MaxSteps == 3
MaxRequests == 3
MaxGames == 2
MaxTime == 4

(* ---------------- program constants ------------------------------------ *)
game_expiration == 3

VARIABLES
    game,       \* Spec: the Game object
    result,     \* Spec: value returned by the last Game method call
    games,      \* WebSpec: GamesManager.games, id -> [game, created_at]
    now,        \* WebSpec: datetime.datetime.now(), in seconds
    issued,     \* WebSpec: identifiers uuid4 has handed out so far
    response,   \* WebSpec: outcome of the last request
    last_touch, \* WebSpec history: time of the last register / get hit per id
    threads,    \* ConcSpec: the request threads, their position and locals
    stack,      \* RevealSpec: the frames of the running reveal_cell_area call
    last_op,    \* history: the last operation and its arguments
    steps       \* history: number of operations performed

vars == <<game, result, games, now, issued, response, last_touch, threads, stack, last_op, steps>>

(* ---------------- GameSettings ----------------------------------------- *)
\* Python 3 round(): nearest integer, ties to the even neighbour
py_round(n, d) ==
    LET q == n \div d
        r == n % d
    IN  IF 2 * r < d THEN q
        ELSE IF 2 * r > d THEN q + 1
        ELSE IF q % 2 = 0 THEN q ELSE q + 1

n_cells == n_rows * n_cols

n_mines == py_round(n_rows * n_cols, mines_ratio)

(* ---------------- Board / Cell ------------------------------------------ *)
Cells == (0 .. n_rows - 1) \X (0 .. n_cols - 1)

\* Board.__iter__: the cells in row-major order
RECURSIVE cells_from(_)
cells_from(k) ==
    IF k >= n_cells THEN <<>>
    ELSE <<(<<k \div n_cols, k % n_cols>>)>> \o cells_from(k + 1)

board_iter == cells_from(0)

Cell(row, col) == [value |-> 0, hidden |-> TRUE, mined |-> FALSE, flagged |-> FALSE]

get_board == [c \in Cells |-> Cell(c[1], c[2])]

contains(row, col) == 0 <= row /\ row <= n_rows - 1 /\ 0 <= col /\ col <= n_cols - 1

\* Python list indexing: negative indices count from the end; -1 stands for IndexError
IndexError == -1
py_index(n, i) ==
    IF 0 <= i /\ i < n THEN i
    ELSE IF -n <= i /\ i < 0 THEN n + i
    ELSE IndexError

neighbours_coors(c) ==
    << <<c[1] - 1, c[2] - 1>>, <<c[1] - 1, c[2]>>, <<c[1] - 1, c[2] + 1>>,
       <<c[1], c[2] - 1>>, <<c[1], c[2] + 1>>,
       <<c[1] + 1, c[2] - 1>>, <<c[1] + 1, c[2]>>, <<c[1] + 1, c[2] + 1>> >>

\* mutant: only the four orthogonal neighbours are yielded
get_cell_neighbours_orth(c) ==
    SelectSeq(neighbours_coors(c),
              LAMBDA rc : contains(rc[1], rc[2]) /\ (rc[1] = c[1] \/ rc[2] = c[2]))

\* the in-bounds Moore neighbours, in the order the generator yields them
get_cell_neighbours(c) ==
    SelectSeq(neighbours_coors(c), LAMBDA rc : contains(rc[1], rc[2]))

(* ---------------- Game: construction ------------------------------------ *)
\* n.value += 1 for every n of a sequence of cells
RECURSIVE bump_values(_, _)
bump_values(board, ns) ==
    IF ns = <<>> THEN board
    ELSE bump_values([board EXCEPT ![Head(ns)].value = @ + 1], Tail(ns))

RECURSIVE update_from(_, _)
update_from(board, cs) ==
    IF cs = <<>> THEN board
    ELSE LET c == Head(cs)
         IN  update_from(IF board[c].mined
                            THEN bump_values(board, get_cell_neighbours(c))
                            ELSE board,
                         Tail(cs))

update_neighbours(board) == update_from(board, board_iter)

\* the outcomes of place_mines_randomly: n_mines distinct cells (a draw that
\* hits a mined cell is retried)
Placements == {M \in SUBSET Cells : Cardinality(M) = n_mines}

place_mines(board, M) == [c \in Cells |-> [board[c] EXCEPT !.mined = (c \in M)]]

NewGame(M) ==
    [board          |-> update_neighbours(place_mines(get_board, M)),
     end_status     |-> "None",
     revealed_cells |-> <<>>,
     score          |-> 0]

(* ---------------- Game: scoring, reveal, flag --------------------------- *)
\* mutant: the bulk reveal skips flagged and mined cells
reveal_all_cells_skip(g) ==
    [g EXCEPT !.board = [c \in Cells |->
        IF ~g.board[c].flagged /\ ~g.board[c].mined
            THEN [g.board[c] EXCEPT !.hidden = FALSE]
            ELSE g.board[c]]]

reveal_all_cells(g) ==
    [g EXCEPT !.board = [c \in Cells |-> [g.board[c] EXCEPT !.hidden = FALSE]]]

check_score(g) ==
    IF g.score = n_mines
        THEN reveal_all_cells([g EXCEPT !.end_status = "won"])
        ELSE g

\* mutant: the fill spreads to the four diagonal neighbours
adjacent_diag(c) ==
    << <<c[1] - 1, c[2] - 1>>, <<c[1] - 1, c[2] + 1>>,
       <<c[1] + 1, c[2] + 1>>, <<c[1] + 1, c[2] - 1>> >>

adjacent(c) ==
    << <<c[1] - 1, c[2]>>, <<c[1], c[2] + 1>>, <<c[1] + 1, c[2]>>, <<c[1], c[2] - 1>> >>

RECURSIVE reveal_cell_area(_, _)
RECURSIVE reveal_adjacent(_, _, _)

\* the loop over `adjacent`, from its i-th element on
reveal_adjacent(g, c, i) ==
    IF i > 4 THEN g
    ELSE LET rc == adjacent(c)[i]
             g2 == IF contains(rc[1], rc[2])
                      /\ g.board[c].value = 0
                      /\ g.board[rc].hidden
                      /\ ~g.board[rc].mined
                   THEN reveal_cell_area(g, rc)
                   ELSE g
         IN  reveal_adjacent(g2, c, i + 1)

\* mutant: a flagged cell is revealed like any other
reveal_cell_area_noguard(g, c) ==
    LET g1 == IF g.board[c].mined
                 THEN reveal_all_cells([g EXCEPT !.end_status = "lost"])
                 ELSE reveal_adjacent(
                          [g EXCEPT !.board[c].hidden = FALSE,
                                    !.revealed_cells = Append(@, c)],
                          c, 1)
    IN  IF n_cells - Len(g1.revealed_cells) = n_mines
           THEN check_score([g1 EXCEPT !.score = n_mines])
           ELSE g1

reveal_cell_area(g, c) ==
    IF g.board[c].flagged THEN g
    ELSE LET g1 == IF g.board[c].mined
                      THEN reveal_all_cells([g EXCEPT !.end_status = "lost"])
                      ELSE reveal_adjacent(
                               [g EXCEPT !.board[c].hidden = FALSE,
                                         !.revealed_cells = Append(@, c)],
                               c, 1)
         IN  IF n_cells - Len(g1.revealed_cells) = n_mines
                THEN check_score([g1 EXCEPT !.score = n_mines])
                ELSE g1

CannotFlag == "Cannot flag/unflag an already revealed cell!"

\* mutant: the score counts every flag, mined or not
toggle_flag_anyscore(g, row, col) ==
    LET r == py_index(n_rows, row)
        k == py_index(n_cols, col)
        c == <<r, k>>
    IN  IF r = IndexError \/ k = IndexError THEN [game |-> g, ret |-> "IndexError"]
        ELSE IF ~g.board[c].hidden THEN [game |-> g, ret |-> CannotFlag]
        ELSE IF g.board[c].flagged
            THEN [game |-> [g EXCEPT !.board[c].flagged = FALSE, !.score = @ - 1],
                  ret  |-> "None"]
            ELSE [game |-> check_score([g EXCEPT !.board[c].flagged = TRUE, !.score = @ + 1]),
                  ret  |-> "None"]

\* mutant: the win check after flagging is missing
toggle_flag_nocheck(g, row, col) ==
    LET r == py_index(n_rows, row)
        k == py_index(n_cols, col)
        c == <<r, k>>
    IN  IF r = IndexError \/ k = IndexError THEN [game |-> g, ret |-> "IndexError"]
        ELSE IF ~g.board[c].hidden THEN [game |-> g, ret |-> CannotFlag]
        ELSE IF g.board[c].flagged
            THEN [game |-> [g EXCEPT !.board[c].flagged = FALSE,
                                     !.score = IF g.board[c].mined THEN @ - 1 ELSE @],
                  ret  |-> "None"]
            ELSE [game |-> [g EXCEPT !.board[c].flagged = TRUE,
                                     !.score = IF g.board[c].mined THEN @ + 1 ELSE @],
                  ret  |-> "None"]

\* mutant: the hidden test is missing, a revealed cell can be flagged
toggle_flag_nohidden(g, row, col) ==
    LET r == py_index(n_rows, row)
        k == py_index(n_cols, col)
        c == <<r, k>>
    IN  IF r = IndexError \/ k = IndexError THEN [game |-> g, ret |-> "IndexError"]
        ELSE IF g.board[c].flagged
            THEN [game |-> [g EXCEPT !.board[c].flagged = FALSE,
                                     !.score = IF g.board[c].mined THEN @ - 1 ELSE @],
                  ret  |-> "None"]
            ELSE [game |-> check_score(
                               [g EXCEPT !.board[c].flagged = TRUE,
                                         !.score = IF g.board[c].mined THEN @ + 1 ELSE @]),
                  ret  |-> "None"]

\* returns the game after the call and the value returned (or the exception raised)
toggle_flag(g, row, col) ==
    LET r == py_index(n_rows, row)
        k == py_index(n_cols, col)
        c == <<r, k>>
    IN  IF r = IndexError \/ k = IndexError THEN [game |-> g, ret |-> "IndexError"]
        ELSE IF ~g.board[c].hidden THEN [game |-> g, ret |-> CannotFlag]
        ELSE IF g.board[c].flagged
            THEN [game |-> [g EXCEPT !.board[c].flagged = FALSE,
                                     !.score = IF g.board[c].mined THEN @ - 1 ELSE @],
                  ret  |-> "None"]
            ELSE [game |-> check_score(
                               [g EXCEPT !.board[c].flagged = TRUE,
                                         !.score = IF g.board[c].mined THEN @ + 1 ELSE @]),
                  ret  |-> "None"]

(* ---------------- Spec: one Game driven through its methods ------------- *)
RowInputs == -1 .. n_rows
ColInputs == -1 .. n_cols

NoOp == [op |-> "none", id |-> 0, row |-> 0, col |-> 0]
NoResponse == [exception |-> "None", body |-> <<>>]

Init ==
    /\ \E M \in Placements : game = NewGame(M)
    /\ result = "None"
    /\ games = <<>>
    /\ now = 0
    /\ issued = {}
    /\ response = NoResponse
    /\ last_touch = <<>>
    /\ threads = <<>>
    /\ stack = <<>>
    /\ last_op = NoOp
    /\ steps = 0

RevealCellArea(c) ==
    /\ steps < MaxSteps
    /\ game' = reveal_cell_area(game, c)
    /\ result' = "None"
    /\ last_op' = [op |-> "reveal_cell_area", id |-> 0, row |-> c[1], col |-> c[2]]
    /\ steps' = steps + 1
    /\ UNCHANGED <<threads, stack, games, now, issued, response, last_touch>>

ToggleFlag(row, col) ==
    /\ steps < MaxSteps
    /\ LET t == toggle_flag(game, row, col)
       IN  /\ game' = t.game
           /\ result' = t.ret
    /\ last_op' = [op |-> "toggle_flag", id |-> 0, row |-> row, col |-> col]
    /\ steps' = steps + 1
    /\ UNCHANGED <<threads, stack, games, now, issued, response, last_touch>>

Next ==
    \/ \E c \in Cells : RevealCellArea(c)
    \/ \E row \in RowInputs, col \in ColInputs : ToggleFlag(row, col)

Spec == Init /\ [][Next]_vars

(* ---------------- MainSpec: the console program main() ------------------ *)
\* a further place_mines_randomly on a board that already carries mines: the
\* draws that hit a mined cell are retried, so M more cells get mined
place_more_mines(board, M) ==
    [c \in Cells |-> [board[c] EXCEPT !.mined = (@ \/ c \in M)]]

FreeCells(g) == {c \in Cells : ~g.board[c].mined}

Crashed == result \in {"AttributeError", "IndexError", "RecursionError"}

\* main(), lines 294-296: after Game() (Init) the mines are placed and the
\* neighbours updated once more.  With fewer than n_mines free cells
\* place_mine_randomly recurses until every cell is mined and then for ever.
main_setup ==
    /\ last_op = NoOp
    /\ IF Cardinality(FreeCells(game)) >= n_mines
          THEN /\ \E M \in {S \in SUBSET FreeCells(game) : Cardinality(S) = n_mines} :
                    game' = [game EXCEPT !.board =
                                update_neighbours(place_more_mines(game.board, M))]
               /\ result' = "None"
          ELSE /\ game' = [game EXCEPT !.board = place_more_mines(game.board, Cells)]
               /\ result' = "RecursionError"
    /\ last_op' = [op |-> "main", id |-> 0, row |-> 0, col |-> 0]
    /\ UNCHANGED <<threads, stack, games, now, issued, response, last_touch, steps>>

\* one turn of the loop with action 'r'
main_reveal(row, col) ==
    /\ last_op # NoOp /\ ~Crashed /\ steps < MaxSteps
    /\ LET r == py_index(n_rows, row)
           k == py_index(n_cols, col)
       IN  IF r = IndexError \/ k = IndexError
              THEN game' = game /\ result' = "IndexError"
              ELSE game' = reveal_cell_area(game, <<r, k>>) /\ result' = "None"
    /\ last_op' = [op |-> "reveal_cell_area", id |-> 0, row |-> row, col |-> col]
    /\ steps' = steps + 1
    /\ UNCHANGED <<threads, stack, games, now, issued, response, last_touch>>

\* one turn of the loop with action 'f': Game has no method place_flag
main_flag(row, col) ==
    /\ last_op # NoOp /\ ~Crashed /\ steps < MaxSteps
    /\ LET r == py_index(n_rows, row)
           k == py_index(n_cols, col)
       IN  result' = IF r = IndexError \/ k = IndexError
                        THEN "IndexError" ELSE "AttributeError"
    /\ last_op' = [op |-> "place_flag", id |-> 0, row |-> row, col |-> col]
    /\ steps' = steps + 1
    /\ UNCHANGED <<threads, stack, game, games, now, issued, response, last_touch>>

MainNext ==
    \/ main_setup
    \/ \E row \in RowInputs, col \in ColInputs : main_reveal(row, col)
    \/ \E row \in RowInputs, col \in ColInputs : main_flag(row, col)

MainSpec == Init /\ [][MainNext]_vars

(* ---------------- GamesManager ------------------------------------------ *)
GameIds == 1 .. MaxGames

\* identifiers a request may carry: the issued ones and 0, which uuid4 never issues
ReqIds == 0 .. MaxGames

register_game(gs, game_id, g, t) ==
    [k \in DOMAIN gs \cup {game_id} |->
        IF k = game_id THEN [game |-> g, created_at |-> t] ELSE gs[k]]

secs_to_game_expire(gs, game_id, t) ==
    game_expiration - (t - gs[game_id].created_at)

\* mutant: the entry is left in the registry
unregister_game_keep(gs, game_id) ==
    IF game_id \in DOMAIN gs
        THEN [games |-> gs, exception |-> "None"]
        ELSE [games |-> gs, exception |-> "KeyError"]

\* del self.games[game_id]
unregister_game(gs, game_id) ==
    IF game_id \in DOMAIN gs
        THEN [games |-> [k \in DOMAIN gs \ {game_id} |-> gs[k]], exception |-> "None"]
        ELSE [games |-> gs, exception |-> "KeyError"]

\* mutant: a hit does not reset created_at
get_game_norefresh(gs, game_id, t) ==
    IF game_id \in DOMAIN gs
        THEN [games |-> gs, hit |-> TRUE, game |-> gs[game_id].game]
        ELSE [games |-> gs, hit |-> FALSE, game |-> "None"]

\* the registry after the call, whether a Game was returned, and that Game
get_game(gs, game_id, t) ==
    IF game_id \in DOMAIN gs
        THEN [games |-> [gs EXCEPT ![game_id].created_at = t],
              hit   |-> TRUE,
              game  |-> gs[game_id].game]
        ELSE [games |-> gs, hit |-> FALSE, game |-> "None"]

\* (score / n_mines) * 100, kept as the exact fraction <<numerator, denominator>>
completion(g) == <<g.score * 100, n_mines>>

\* the dicts of the returned list (their order, the dict's insertion order, is not kept)
get_nonexpired_games(gs, t) ==
    {[secs_to_expire |-> secs_to_game_expire(gs, k, t),
      completion     |-> completion(gs[k].game),
      id             |-> k] : k \in {j \in DOMAIN gs : secs_to_game_expire(gs, j, t) > 0}}

\* called by start_new_game, not defined in minesweeper.py: drops the entries
\* that get_nonexpired_games no longer lists
unregister_old_games(gs, t) ==
    [k \in {j \in DOMAIN gs : secs_to_game_expire(gs, j, t) > 0} |-> gs[k]]

(* ---------------- WebSpec: the request handlers of views.py ------------- *)
\* the mine placements the handlers' games are drawn from: two outcomes of
\* place_mines_randomly, the first n_mines cells by rows (no cell of value 0
\* on a small board) and the first n_mines cells by columns (a zero region)
by_rows(k) == <<(k - 1) \div n_cols, (k - 1) % n_cols>>
by_cols(k) == <<(k - 1) % n_rows, (k - 1) \div n_rows>>
WebPlacements ==
    {{by_rows(k) : k \in 1 .. n_mines}, {by_cols(k) : k \in 1 .. n_mines}}

\* a fresh identifier; identifiers are opaque, the model hands them out in order
uuid4 == Cardinality(issued) + 1

Restrict(f, S) == [k \in DOMAIN f \cap S |-> f[k]]

Fault(exc) == [exception |-> exc, body |-> <<>>]
Json(body) == [exception |-> "None", body |-> body]

WebInit ==
    /\ game = "None"
    /\ result = "None"
    /\ games = <<>>
    /\ now = 0
    /\ issued = {}
    /\ response = NoResponse
    /\ last_touch = <<>>
    /\ threads = <<>>
    /\ stack = <<>>
    /\ last_op = NoOp
    /\ steps = 0

Tick ==
    /\ now < MaxTime
    /\ now' = now + 1
    /\ UNCHANGED <<threads, stack, game, result, games, issued, response, last_touch, last_op, steps>>

start_new_game ==
    /\ steps < MaxRequests
    /\ issued # GameIds
    /\ \E M \in WebPlacements :
        LET game_id == uuid4
            g   == NewGame(M)
            gs1 == register_game(games, game_id, g, now)
            gs2 == unregister_old_games(gs1, now)
        IN  /\ games' = gs2
            /\ issued' = issued \cup {game_id}
            /\ response' = Json([game_id |-> game_id, board |-> g.board])
            /\ last_touch' = Restrict([k \in DOMAIN last_touch \cup {game_id} |->
                                          IF k = game_id THEN now ELSE last_touch[k]],
                                      DOMAIN gs2)
            /\ last_op' = [op |-> "/start_new_game", id |-> game_id, row |-> 0, col |-> 0]
    /\ steps' = steps + 1
    /\ UNCHANGED <<threads, stack, game, result, now>>

\* history: a hit on game_id is an access at time `now`
Touched(game_id, gs2) ==
    Restrict(IF game_id \in DOMAIN games
                THEN [last_touch EXCEPT ![game_id] = now]
                ELSE last_touch,
             DOMAIN gs2)

get_games_state(game_id) ==
    /\ steps < MaxRequests
    /\ LET h == get_game(games, game_id, now)
       IN  /\ games' = h.games
           /\ response' = IF h.hit
                             THEN Json([current_games |-> DOMAIN h.games,
                                        board |-> h.game.board])
                             ELSE Json([current_games |-> DOMAIN h.games])
           /\ last_touch' = Touched(game_id, h.games)
    /\ last_op' = [op |-> "/get_games_state", id |-> game_id, row |-> 0, col |-> 0]
    /\ steps' = steps + 1
    /\ UNCHANGED <<threads, stack, game, result, now, issued>>

\* the part the two mutating handlers share once the Game method has run:
\* unregister an ended game, answer with the board and end_status
finish_request(gs, game_id, g) ==
    LET gs1 == [gs EXCEPT ![game_id].game = g]
        gs2 == IF g.end_status # "None" THEN unregister_game(gs1, game_id).games ELSE gs1
    IN  [games |-> gs2, response |-> Json([board |-> g.board, end_status |-> g.end_status])]

reveal_cell_area_view(game_id, row, col) ==
    /\ steps < MaxRequests
    /\ LET h == get_game(games, game_id, now)
           r == py_index(n_rows, row)
           k == py_index(n_cols, col)
           f == finish_request(h.games, game_id, reveal_cell_area(h.game, <<r, k>>))
       IN  /\ games' = IF h.hit /\ r # IndexError /\ k # IndexError THEN f.games ELSE h.games
           /\ response' = IF ~h.hit THEN Fault("AttributeError")
                          ELSE IF r = IndexError \/ k = IndexError THEN Fault("IndexError")
                          ELSE f.response
           /\ last_touch' = Touched(game_id, games')
    /\ last_op' = [op |-> "/reveal_cell_area", id |-> game_id, row |-> row, col |-> col]
    /\ steps' = steps + 1
    /\ UNCHANGED <<threads, stack, game, result, now, issued>>

toggle_flag_view(game_id, row, col) ==
    /\ steps < MaxRequests
    /\ LET h == get_game(games, game_id, now)
           t == toggle_flag(h.game, row, col)
           f == finish_request(h.games, game_id, t.game)
       IN  /\ games' = IF h.hit /\ t.ret # "IndexError" THEN f.games ELSE h.games
           /\ response' = IF ~h.hit THEN Fault("AttributeError")
                          ELSE IF t.ret = "IndexError" THEN Fault("IndexError")
                          ELSE f.response
           /\ last_touch' = Touched(game_id, games')
    /\ last_op' = [op |-> "/toggle_flag", id |-> game_id, row |-> row, col |-> col]
    /\ steps' = steps + 1
    /\ UNCHANGED <<threads, stack, game, result, now, issued>>

WebNext ==
    \/ Tick
    \/ start_new_game
    \/ \E game_id \in ReqIds : get_games_state(game_id)
    \/ \E game_id \in ReqIds, row \in RowInputs, col \in ColInputs :
            reveal_cell_area_view(game_id, row, col)
    \/ \E game_id \in ReqIds, row \in RowInputs, col \in ColInputs :
            toggle_flag_view(game_id, row, col)

WebSpec == WebInit /\ [][WebNext]_vars

\* time passes whatever the clients do; no request is ever bound to arrive
FairWebSpec == WebSpec /\ WF_vars(Tick)

(* ---------------- ConcSpec: two request threads on one game ------------- *)
\* The server handles each request in a thread of its own and nothing in
\* views.py or minesweeper.py takes a lock.  Two threads serve reveal and
\* toggle-flag requests for the game registered by one /start_new_game; the
\* statements of Game.toggle_flag are separate steps, Game.reveal_cell_area
\* runs as one step.  `game` is the Game object both threads hold.
Threads == {1, 2}

TheGameId == 1

IdleThread == [pc |-> "idle", op |-> "none", cell |-> <<0, 0>>, branch |-> "none",
               exception |-> "None"]

\* the registry entry refers to the Game object: it shows the object's state
Sync(gs, g) ==
    IF TheGameId \in DOMAIN gs THEN [gs EXCEPT ![TheGameId].game = g] ELSE gs

ConcInit ==
    /\ \E M \in WebPlacements :
        /\ game = NewGame(M)
        /\ games = register_game(<<>>, TheGameId, NewGame(M), 0)
        /\ response = Json([game_id |-> TheGameId, board |-> NewGame(M).board])
    /\ result = "None"
    /\ now = 0
    /\ issued = {TheGameId}
    /\ last_touch = [k \in {TheGameId} |-> 0]
    /\ threads = [t \in Threads |-> IdleThread]
    /\ stack = <<>>
    /\ last_op = [op |-> "/start_new_game", id |-> TheGameId, row |-> 0, col |-> 0]
    /\ steps = 1

\* views.py:61-66 / 81-85: look the game up, read row and col
c_begin(t, op, c) ==
    /\ threads[t].pc = "idle"
    /\ steps < MaxRequests
    /\ LET h == get_game(games, TheGameId, now)
       IN  /\ games' = h.games
           /\ IF h.hit
                 THEN /\ threads' = [threads EXCEPT ![t] =
                            [pc |-> IF op = "/toggle_flag" THEN "t_hidden" ELSE "r_call",
                             op |-> op, cell |-> c, branch |-> "none",
                             exception |-> "None"]]
                      /\ response' = response
                 ELSE /\ threads' = [threads EXCEPT ![t] =
                            [pc |-> "idle", op |-> op, cell |-> c, branch |-> "none",
                             exception |-> "AttributeError"]]
                      /\ response' = Fault("AttributeError")
    /\ last_op' = [op |-> op, id |-> TheGameId, row |-> c[1], col |-> c[2]]
    /\ steps' = steps + 1
    /\ UNCHANGED <<stack, game, result, now, issued, last_touch>>

\* minesweeper.py:114-115
c_toggle_hidden(t) ==
    /\ threads[t].pc = "t_hidden"
    /\ threads' = [threads EXCEPT ![t].pc =
                      IF ~game.board[threads[t].cell].hidden THEN "end" ELSE "t_flagged"]
    /\ UNCHANGED <<stack, game, result, games, now, issued, response, last_touch, last_op, steps>>

\* minesweeper.py:117 / 121: the test of cell.flagged
c_toggle_flagged(t) ==
    /\ threads[t].pc = "t_flagged"
    /\ threads' = [threads EXCEPT ![t].pc = "t_set",
                                  ![t].branch = IF game.board[threads[t].cell].flagged
                                                   THEN "unflag" ELSE "flag"]
    /\ UNCHANGED <<stack, game, result, games, now, issued, response, last_touch, last_op, steps>>

\* minesweeper.py:118 / 122
c_toggle_set(t) ==
    /\ threads[t].pc = "t_set"
    /\ game' = [game EXCEPT !.board[threads[t].cell].flagged = (threads[t].branch = "flag")]
    /\ games' = Sync(games, game')
    /\ threads' = [threads EXCEPT ![t].pc = "t_score"]
    /\ UNCHANGED <<stack, result, now, issued, response, last_touch, last_op, steps>>

\* minesweeper.py:119-120 / 123-124
c_toggle_score(t) ==
    /\ threads[t].pc = "t_score"
    /\ game' = IF game.board[threads[t].cell].mined
                  THEN [game EXCEPT !.score =
                            IF threads[t].branch = "flag" THEN @ + 1 ELSE @ - 1]
                  ELSE game
    /\ games' = Sync(games, game')
    /\ threads' = [threads EXCEPT ![t].pc =
                      IF threads[t].branch = "flag" THEN "t_check" ELSE "end"]
    /\ UNCHANGED <<stack, result, now, issued, response, last_touch, last_op, steps>>

\* minesweeper.py:125
c_toggle_check(t) ==
    /\ threads[t].pc = "t_check"
    /\ game' = check_score(game)
    /\ games' = Sync(games, game')
    /\ threads' = [threads EXCEPT ![t].pc = "end"]
    /\ UNCHANGED <<stack, result, now, issued, response, last_touch, last_op, steps>>

\* views.py:68
c_reveal(t) ==
    /\ threads[t].pc = "r_call"
    /\ game' = reveal_cell_area(game, threads[t].cell)
    /\ games' = Sync(games, game')
    /\ threads' = [threads EXCEPT ![t].pc = "end"]
    /\ UNCHANGED <<stack, result, now, issued, response, last_touch, last_op, steps>>

\* views.py:70-77 / 89-96
c_end(t) ==
    /\ threads[t].pc = "end"
    /\ LET u == IF game.end_status # "None"
                   THEN unregister_game(games, TheGameId)
                   ELSE [games |-> games, exception |-> "None"]
       IN  /\ games' = u.games
           /\ threads' = [threads EXCEPT ![t].pc = "idle", ![t].exception = u.exception]
           /\ response' = IF u.exception = "None"
                             THEN Json([board |-> game.board,
                                        end_status |-> game.end_status])
                             ELSE Fault(u.exception)
           /\ last_touch' = Restrict(last_touch, DOMAIN u.games)
    /\ UNCHANGED <<stack, game, result, now, issued, last_op, steps>>

ConcNext ==
    \/ \E t \in Threads, op \in {"/reveal_cell_area", "/toggle_flag"}, c \in Cells :
            c_begin(t, op, c)
    \/ \E t \in Threads : c_toggle_hidden(t)
    \/ \E t \in Threads : c_toggle_flagged(t)
    \/ \E t \in Threads : c_toggle_set(t)
    \/ \E t \in Threads : c_toggle_score(t)
    \/ \E t \in Threads : c_toggle_check(t)
    \/ \E t \in Threads : c_reveal(t)
    \/ \E t \in Threads : c_end(t)

ConcSpec == ConcInit /\ [][ConcNext]_vars

(* ---------------- RevealSpec: reveal_cell_area, statement by statement ---- *)
\* The recursion of Game.reveal_cell_area as the interpreter runs it: `stack`
\* holds one frame per active call, the innermost last.  A frame is the call's
\* cell, its position (pc) and the index i of the loop over `adjacent`; base
\* is history, the length of revealed_cells when the outermost call began.
\* Flags are toggled between calls.

Frame(c, base) == [cell |-> c, pc |-> "enter", i |-> 0, base |-> base]

Top == stack[Len(stack)]

Pop == SubSeq(stack, 1, Len(stack) - 1)

\* mutant: the fill also enters cells that are no longer hidden
enters_unhidden(g, c, rc) ==
    /\ contains(rc[1], rc[2])
    /\ g.board[c].value = 0
    /\ ~g.board[rc].mined

\* minesweeper.py:143-145: the tests before the nested call
enters(g, c, rc) ==
    /\ contains(rc[1], rc[2])
    /\ g.board[c].value = 0
    /\ g.board[rc].hidden
    /\ ~g.board[rc].mined

\* the outermost call
r_call(c) ==
    /\ stack = <<>>
    /\ steps < MaxSteps
    /\ stack' = <<Frame(c, Len(game.revealed_cells))>>
    /\ last_op' = [op |-> "reveal_cell_area", id |-> 0, row |-> c[1], col |-> c[2]]
    /\ steps' = steps + 1
    /\ UNCHANGED <<game, result, threads, games, now, issued, response, last_touch>>

\* minesweeper.py:128-134
r_enter ==
    /\ stack # <<>>
    /\ Top.pc = "enter"
    /\ IF game.board[Top.cell].flagged
          THEN /\ stack' = Pop
               /\ game' = game
          ELSE IF game.board[Top.cell].mined
          THEN /\ game' = reveal_all_cells([game EXCEPT !.end_status = "lost"])
               /\ stack' = [stack EXCEPT ![Len(stack)].pc = "check"]
          ELSE /\ game' = [game EXCEPT !.board[Top.cell].hidden = FALSE,
                                       !.revealed_cells = Append(@, Top.cell)]
               /\ stack' = [stack EXCEPT ![Len(stack)].pc = "loop", ![Len(stack)].i = 1]
    /\ UNCHANGED <<result, threads, games, now, issued, response, last_touch, last_op, steps>>

\* minesweeper.py:142-146: one turn of the loop over `adjacent`
r_loop ==
    /\ stack # <<>>
    /\ Top.pc = "loop"
    /\ LET rc   == adjacent(Top.cell)[Top.i]
           back == IF Top.i = Len(adjacent(Top.cell))
                      THEN [stack EXCEPT ![Len(stack)].pc = "check"]
                      ELSE [stack EXCEPT ![Len(stack)].i = @ + 1]
       IN  stack' = IF enters(game, Top.cell, rc)
                       THEN Append(back, Frame(rc, Top.base))
                       ELSE back
    /\ UNCHANGED <<game, result, threads, games, now, issued, response, last_touch,
                   last_op, steps>>

\* minesweeper.py:149-151, then the return
r_check ==
    /\ stack # <<>>
    /\ Top.pc = "check"
    /\ game' = IF n_cells - Len(game.revealed_cells) = n_mines
                  THEN check_score([game EXCEPT !.score = n_mines])
                  ELSE game
    /\ stack' = Pop
    /\ UNCHANGED <<result, threads, games, now, issued, response, last_touch, last_op, steps>>

r_step == r_enter \/ r_loop \/ r_check

r_toggle(c) ==
    /\ stack = <<>>
    /\ ToggleFlag(c[1], c[2])

RevealNext ==
    \/ \E c \in Cells : r_call(c)
    \/ r_enter
    \/ r_loop
    \/ r_check
    \/ \E c \in Cells : r_toggle(c)

RevealSpec == Init /\ [][RevealNext]_vars

\* a call that has begun keeps running
FairRevealSpec == RevealSpec /\ WF_vars(r_step)

(* ======================= properties of the Game engine ================== *)
Range(s) == {s[i] : i \in 1 .. Len(s)}

AllUnhidden(g) == \A c \in Cells : ~g.board[c].hidden

AllSafeUnhidden(g) == \A c \in Cells : ~g.board[c].mined => ~g.board[c].hidden

NoFlags(g) == \A c \in Cells : ~g.board[c].flagged

\* the cell the last operation addressed (after Python's index wrap-around)
OpCell(op) == <<py_index(n_rows, op.row), py_index(n_cols, op.col)>>

OpInBounds(op) ==
    py_index(n_rows, op.row) # IndexError /\ py_index(n_cols, op.col) # IndexError

\* this step is a call of the named Game method
Called(name) == steps' = steps + 1 /\ last_op'.op = name

\* C1 (as stated): on an in-progress game, reveal_cell_area on ANY mined cell
\* sets end_status to lost and leaves every cell unhidden.
C1_AnyMineLoses ==
    [][(Called("reveal_cell_area")
        /\ game.end_status = "None"
        /\ game.board[OpCell(last_op')].mined)
       => (game'.end_status = "lost" /\ AllUnhidden(game'))]_vars

\* C1 (amended): on an in-progress game, reveal_cell_area on a mined cell that
\* is not flagged sets end_status to lost and leaves every cell unhidden.
C1_UnflaggedMineLoses ==
    [][(Called("reveal_cell_area")
        /\ game.end_status = "None"
        /\ game.board[OpCell(last_op')].mined
        /\ ~game.board[OpCell(last_op')].flagged)
       => (game'.end_status = "lost" /\ AllUnhidden(game'))]_vars

\* an unflagged mine has just been revealed on a board that still carries a
\* flag elsewhere, and the game is lost with the whole board open
C1_Witness ==
    /\ last_op.op = "reveal_cell_area"
    /\ game.board[OpCell(last_op)].mined
    /\ ~game.board[OpCell(last_op)].flagged
    /\ \E c \in Cells : game.board[c].flagged
    /\ game.revealed_cells = <<>>
    /\ game.end_status = "lost"
    /\ AllUnhidden(game)

\* C2: end_status changes at most once: once it is won or lost, no later
\* reveal_cell_area or toggle_flag gives it a different value.
C2_EndStatusFinal ==
    [][game.end_status # "None" => game'.end_status = game.end_status]_vars

\* C3: on an in-progress game with no flags, after a reveal_cell_area on a
\* non-mined cell the game is won exactly when every non-mined cell is unhidden.
C3_WonIffAllSafeRevealed ==
    [][(Called("reveal_cell_area")
        /\ game.end_status = "None"
        /\ NoFlags(game)
        /\ ~game.board[OpCell(last_op')].mined)
       => ((game'.end_status = "won") <=> AllSafeUnhidden(game'))]_vars

\* C4: after a toggle_flag on an in-progress game, the game is won with every
\* cell unhidden exactly when score = n_mines; removing a flag never wins.
C4_ToggleWinIffScore ==
    [][(Called("toggle_flag") /\ game.end_status = "None")
       => /\ (game'.end_status = "won" /\ AllUnhidden(game'))
                <=> (game'.score = n_mines)
          /\ (OpInBounds(last_op') /\ game.board[OpCell(last_op')].flagged)
                => game'.end_status = "None"]_vars

\* the last mine has just been flagged: score = n_mines, won, board open
C4_Witness ==
    /\ last_op.op = "toggle_flag"
    /\ result = "None"
    /\ game.board[OpCell(last_op)].flagged
    /\ game.board[OpCell(last_op)].mined
    /\ game.score = n_mines
    /\ game.end_status = "won"
    /\ AllUnhidden(game)

\* C5: toggle_flag on a cell that is not hidden returns the "cannot flag"
\* message and changes nothing of the game (cells, score, end_status).
C5_RevealedCellNotFlagged ==
    [][(Called("toggle_flag")
        /\ OpInBounds(last_op')
        /\ ~game.board[OpCell(last_op')].hidden)
       => (result' = CannotFlag /\ game' = game)]_vars

\* a toggle_flag was rejected on a revealed cell of a game still in progress
C5_Witness ==
    /\ last_op.op = "toggle_flag"
    /\ result = CannotFlag
    /\ ~game.board[OpCell(last_op)].hidden
    /\ game.end_status = "None"

\* C6: reveal_cell_area on a flagged cell changes nothing, mined or not; and a
\* flood fill started elsewhere never reveals or records a flagged cell: it
\* stays flagged, and stays as it was while the game is in progress.
C6_FlaggedCellProtected ==
    [][Called("reveal_cell_area")
       => /\ game.board[OpCell(last_op')].flagged => game' = game
          /\ \A c \in Cells :
                (game.board[c].flagged /\ c \notin Range(game.revealed_cells))
                => /\ game'.board[c].flagged
                   /\ c \notin Range(game'.revealed_cells)
                   /\ game'.end_status = "None" => game'.board[c] = game.board[c]]_vars

\* reveal_cell_area was just called on a flagged, non-mined cell that borders
\* an already opened zero cell: the fill went round it and the call left it
C6_Witness ==
    /\ last_op.op = "reveal_cell_area"
    /\ game.end_status = "None"
    /\ LET c == OpCell(last_op)
       IN  /\ game.board[c].flagged
           /\ game.board[c].hidden
           /\ ~game.board[c].mined
           /\ \E i \in 1 .. 4 :
                LET z == adjacent(c)[i]
                IN  /\ contains(z[1], z[2])
                    /\ game.board[z].value = 0
                    /\ z \in Range(game.revealed_cells)

(* ======================= properties of the registry and the handlers ==== *)
\* this step is a request to one of the routes that look a game up
LookupRoutes == {"/get_games_state", "/reveal_cell_area", "/toggle_flag"}

Requested(routes) == steps' = steps + 1 /\ last_op'.op \in routes

\* the identifier has no entry, or its entry has been idle longer than the window
AbsentOrExpired(game_id) ==
    \/ game_id \notin DOMAIN games
    \/ secs_to_game_expire(games, game_id, now) < 0

\* the response is the normal outcome "absent": no exception, no board
IsAbsent(resp) == resp.exception = "None" /\ "board" \notin DOMAIN resp.body

\* C7: a get-state, reveal or toggle-flag request for an identifier that was
\* never registered, was unregistered, or has been idle longer than the
\* expiration window answers "absent" without a fault and changes no game and
\* no registry entry.
C7_AbsentIsNormal ==
    [][(Requested(LookupRoutes) /\ AbsentOrExpired(last_op'.id))
       => (IsAbsent(response') /\ games' = games)]_vars

\* C8: between request handlers every registered game is in progress
\* (end_status is None): a request that ends a game unregisters it.
C8_RegisteredGamesInProgress ==
    \A game_id \in DOMAIN games : games[game_id].game.end_status = "None"

\* a toggle-flag request has just won a registered game (the response carries
\* end_status 'won') and its entry is gone
C8_Witness ==
    /\ last_op.op = "/toggle_flag"
    /\ response.exception = "None"
    /\ response.body.end_status = "won"
    /\ last_op.id \in issued
    /\ last_op.id \notin DOMAIN games

\* C9: an entry that is not accessed any more is eventually removed once it
\* has been idle longer than the expiration window: no entry stays registered
\* and expired for ever.
C9_IdleEventuallyReaped ==
    \A game_id \in GameIds :
        []<>(~(game_id \in DOMAIN games
               /\ secs_to_game_expire(games, game_id, now) < 0))

LiveIds == {d.id : d \in get_nonexpired_games(games, now)}

\* C10: an entry is listed by get_nonexpired_games exactly when less than
\* game_expiration seconds have passed since it was registered or last
\* returned by get_game; right after a hit its secs_to_game_expire is the
\* full window.
C10_LiveIffFresh ==
    /\ [](\A game_id \in DOMAIN games :
            (game_id \in LiveIds) <=> (now - last_touch[game_id] < game_expiration))
    /\ [][(Requested(LookupRoutes)
           /\ last_op'.id \in DOMAIN games
           /\ last_op'.id \in DOMAIN games')
          => secs_to_game_expire(games', last_op'.id, now') = game_expiration]_vars

\* a lookup has just hit an entry registered more than a window ago: it is
\* listed again with the full window, next to an entry that has dropped out
C10_Witness ==
    /\ last_op.op = "/get_games_state"
    /\ last_op.id \in DOMAIN games
    /\ now > game_expiration
    /\ last_touch[last_op.id] = now
    /\ last_op.id \in LiveIds
    /\ secs_to_game_expire(games, last_op.id, now) = game_expiration
    /\ \E other \in DOMAIN games : other \notin LiveIds

(* ======================= further properties of the Game engine ========== *)
MinedCells(g) == {c \in Cells : g.board[c].mined}

Abs(x) == IF x < 0 THEN -x ELSE x

\* the mined cells among the up to eight cells around c
MinedAround(g, c) ==
    {m \in MinedCells(g) : m # c /\ Abs(m[1] - c[1]) <= 1 /\ Abs(m[2] - c[2]) <= 1}

\* C14: whenever the game is won, every mined cell is flagged or every
\* non-mined cell has been recorded by a reveal (is in revealed_cells).
C14_WonIsEarned ==
    game.end_status = "won"
    => \/ \A c \in Cells : game.board[c].mined => game.board[c].flagged
       \/ \A c \in Cells : ~game.board[c].mined => c \in Range(game.revealed_cells)

\* C15: while the game is in progress revealed_cells holds no cell twice, so
\* its length is the number of unhidden cells.
C15_RevealedOnce ==
    game.end_status = "None"
    => /\ \A i, j \in 1 .. Len(game.revealed_cells) :
            game.revealed_cells[i] = game.revealed_cells[j] => i = j
       /\ Len(game.revealed_cells) = Cardinality({c \in Cells : ~game.board[c].hidden})

\* C18: while the game is in progress score is the number of flagged mined
\* cells and 0 <= score < n_mines; in every state 0 <= score <= n_mines.
C18_ScoreCountsFlaggedMines ==
    /\ 0 <= game.score /\ game.score <= n_mines
    /\ game.end_status = "None"
        => /\ game.score = Cardinality({c \in Cells : game.board[c].flagged
                                                      /\ game.board[c].mined})
           /\ game.score < n_mines

\* a mine and a safe cell are flagged, the game is in progress with score 1
C18_Witness ==
    /\ last_op.op = "toggle_flag"
    /\ game.end_status = "None"
    /\ game.score = 1
    /\ \E c \in Cells : game.board[c].flagged /\ game.board[c].mined
    /\ \E c \in Cells : game.board[c].flagged /\ ~game.board[c].mined

Orthogonal(c) ==
    {rc \in Cells : Abs(rc[1] - c[1]) + Abs(rc[2] - c[2]) = 1}

\* closure of S under "a cell of value 0 passes on to its orthogonal
\* neighbours"; with only_hidden, to those that are hidden and not mined in g
RECURSIVE ZeroClosure(_, _, _)
ZeroClosure(g, S, only_hidden) ==
    LET T == S \cup {rc \in Cells :
                        /\ only_hidden => (g.board[rc].hidden /\ ~g.board[rc].mined)
                        /\ \E x \in S : g.board[x].value = 0 /\ rc \in Orthogonal(x)}
    IN  IF T = S THEN S ELSE ZeroClosure(g, T, only_hidden)

\* cells reachable from c along orthogonal paths whose cells, the last
\* possibly excepted, have value 0
Reach(g, c) == ZeroClosure(g, {c}, FALSE)

\* the same, along cells that are hidden (and not mined) in g
HiddenReach(g, c) == ZeroClosure(g, {c}, TRUE)

\* what a call appended to revealed_cells
Added(g, h) == SubSeq(h.revealed_cells, Len(g.revealed_cells) + 1, Len(h.revealed_cells))

RevealsHiddenSafeCell ==
    /\ Called("reveal_cell_area")
    /\ NoFlags(game)
    /\ game.board[OpCell(last_op')].hidden
    /\ ~game.board[OpCell(last_op')].mined

OutOfRange(op) ==
    \/ op.row \notin 0 .. n_rows - 1
    \/ op.col \notin 0 .. n_cols - 1

\* C12: a reveal or toggle-flag request for a registered game whose row or
\* col lies outside the board (negative values included) is rejected before
\* any cell is indexed: it raises no IndexError, returns no board, and leaves
\* the game (cells, score, end_status) as it was.
C12_OutOfRangeRejected ==
    [][(Requested({"/reveal_cell_area", "/toggle_flag"})
        /\ last_op'.id \in DOMAIN games
        /\ OutOfRange(last_op'))
       => /\ response'.exception # "IndexError"
          /\ "board" \notin DOMAIN response'.body
          /\ last_op'.id \in DOMAIN games'
          /\ games'[last_op'.id].game = games[last_op'.id].game]_vars

(* ======================= properties of mine placement =================== *)
\* C19: once mine placement has completed (from the constructed Game on)
\* exactly n_mines cells are mined, and the set of mined cells never changes.
C19_MinesFixed ==
    /\ [](Cardinality(MinedCells(game)) = n_mines)
    /\ [][MinedCells(game') = MinedCells(game)]_vars

(* ======================= properties under concurrent requests =========== *)
\* C11: unregister_game for an identifier that has no entry succeeds without
\* an exception and leaves the registry as it is.  (The handlers reach that
\* call when a request finds its game ended after another request has
\* already unregistered it.)
C11_UnregisterIdempotent ==
    [][\A t \in Threads :
        (/\ threads[t].pc = "end" /\ threads'[t].pc = "idle"
         /\ game.end_status # "None"
         /\ TheGameId \notin DOMAIN games)
        => (threads'[t].exception = "None" /\ games' = games)]_vars

\* the Game method a request runs, as one uninterrupted call
Apply(th, g) ==
    IF th.op = "/toggle_flag"
        THEN toggle_flag(g, th.cell[1], th.cell[2]).game
        ELSE reveal_cell_area(g, th.cell)

\* the game as /start_new_game registered it
InitialGame == NewGame(MinedCells(game))

\* the two serial executions of the threads' operations
Serial12 == Apply(threads[2], Apply(threads[1], InitialGame))
Serial21 == Apply(threads[1], Apply(threads[2], InitialGame))

\* C13: when the two threads have each served one request on the game, the
\* game is in a state that the two operations produce when run one after the
\* other, in one order or the other.
C13_Serializable ==
    (/\ steps = 3
     /\ \A t \in Threads : /\ threads[t].pc = "idle"
                           /\ threads[t].op # "none"
                           /\ threads[t].exception # "AttributeError")
    => (game = Serial12 \/ game = Serial21)


\* the cells the running call has recorded so far
Recorded == SubSeq(game.revealed_cells, Top.base + 1, Len(game.revealed_cells))

\* the innermost call records its cell: it was not recorded in this call
\* before, and the step is what unhides it unless it is the outermost call
RecordsOnce ==
    (r_enter /\ Len(game'.revealed_cells) > Len(game.revealed_cells))
    => /\ Top.cell \notin Range(Recorded)
       /\ (Len(stack) > 1 => game.board[Top.cell].hidden)

\* C17: every reveal_cell_area call returns; within one call no cell is
\* unhidden and recorded twice, and the calls are never nested deeper than
\* n_rows * n_cols.
C17_RevealTerminates ==
    /\ [](Len(stack) <= n_cells)
    /\ [][RecordsOnce]_vars
    /\ (stack # <<>>) ~> (stack = <<>>)

\* the fill is nested three calls deep, each of which has recorded its cell
C17_Witness ==
    /\ Len(stack) = 3
    /\ Top.pc = "check"
    /\ Len(Recorded) = 3

====
